---- MODULE Spec2Model ----
(***************************************************************************)
(* Model of the Kademlia routing table (libp2p/kad_dht/routing_table.py)   *)
(* and of the record module (libp2p/record: record.py, utils.py,           *)
(* validator.py), with the custom validator of examples/record_demo.py.    *)
(*                                                                         *)
(* Python values are represented as follows:                               *)
(*   bytes / PeerID   a sequence of byte values (0..255)                   *)
(*   str              a sequence of one-character strings                  *)
(*   Optional[T]      <<>> for None, <<v>> for a value v                   *)
(*   a call outcome   a record [status, type, msg, value]: either a        *)
(*                    return of value, or a raise of an exception of       *)
(*                    class type whose message starts with msg             *)
(***************************************************************************)
EXTENDS Integers, Sequences, FiniteSets, TLC

VARIABLES
    \* ---- RoutingTable ----
    local_peer_id,   \* RoutingTable.local_peer_id
    kbucket_size,    \* RoutingTable.kbucket_size
    peers,           \* RoutingTable.peers, a Python list
    rt_call,         \* the last RoutingTable call: its arguments, the list before it, its result
    added,           \* history: the distinct non-local peers add was called with, in the order of
                     \* their first call, while no remove was made
    removed,         \* history: whether remove was ever called
    tasks,           \* for each task calling into the RoutingTable: the call it is in, the
                     \* line it is at, its local variables and its result
    \* ---- Record ----
    clock,           \* time.time()
    records,         \* the Record objects constructed so far
    eq_call,         \* the last Record.__eq__ call and its result
    \* ---- validators ----
    key,             \* the record key the validator calls are made with
    validators,      \* NamespacedValidator._validators: namespace -> validator class
    v_call,          \* the last validator call: its arguments and its outcome
    invoked,         \* the validator methods the last NamespacedValidator call delegated to
    last_reg,        \* history: for each namespace, the validator class of the most recent
                     \* add_validator call for it, None when there was none
    \* ---- SplitKey ----
    sk_key,          \* the argument of the last SplitKey call
    sk_result,       \* its outcome
    sk_prev          \* the SplitKey call before the last: its argument and outcome

rt_vars  == <<local_peer_id, kbucket_size, peers, rt_call, added, removed, tasks>>
rec_vars == <<clock, records, eq_call>>
val_vars == <<key, validators, v_call, invoked, last_reg>>
sk_vars  == <<sk_key, sk_result, sk_prev>>
vars     == <<rt_vars, rec_vars, val_vars, sk_vars>>

None == <<>>
Some(v) == <<v>>

(***************************************************************************)
(* Bounds                                                                  *)
(***************************************************************************)
NumPeerIds == 4     \* number of distinct peer identifiers
MaxK       == 2     \* largest capacity a table is constructed with
MaxCount   == 2     \* largest count passed to closest_peers

(***************************************************************************)
(* Peer identifiers: fixed-width (two byte) identifiers                    *)
(***************************************************************************)
ByteRange == 256

PeerIdBytes(i) == << i \div 2, (i * 85) % ByteRange >>

PeerIds == { PeerIdBytes(i) : i \in 1..NumPeerIds }

Capacities == 0..MaxK

Counts == { None } \cup { Some(n) : n \in 0..MaxCount }

(***************************************************************************)
(* Python list helpers                                                     *)
(***************************************************************************)
Contains(list, x) == \E i \in 1..Len(list) : list[i] = x

Elems(list) == { list[i] : i \in 1..Len(list) }

Take(list, n) == SubSeq(list, 1, IF n < Len(list) THEN n ELSE Len(list))

\* list.remove(x): removes the first occurrence; raises ValueError when absent
\* (the caller below swallows the ValueError, leaving the list as it was)
RECURSIVE list_remove(_, _)
list_remove(list, x) ==
    IF list = <<>> THEN <<>>
    ELSE IF Head(list) = x THEN Tail(list)
    ELSE <<Head(list)>> \o list_remove(Tail(list), x)

(***************************************************************************)
(* xor_distance                                                            *)
(***************************************************************************)
RECURSIVE int_from_bytes(_)
int_from_bytes(b) ==
    IF b = <<>> THEN 0
    ELSE int_from_bytes(SubSeq(b, 1, Len(b) - 1)) * ByteRange + b[Len(b)]

RECURSIVE BitXor(_, _)
BitXor(x, y) ==
    IF x = 0 THEN y
    ELSE IF y = 0 THEN x
    ELSE 2 * BitXor(x \div 2, y \div 2) + (((x % 2) + (y % 2)) % 2)

xor_distance(a, b) == BitXor(int_from_bytes(a), int_from_bytes(b))

(***************************************************************************)
(* heapq.nsmallest(n, iterable, key): the n smallest elements by key, in   *)
(* ascending key order, elements of equal key in their original order;     *)
(* empty for n <= 0.                                                       *)
(***************************************************************************)
RECURSIVE InsertByKey(_, _)
\* insert the pair e = <<key, item>> after every pair whose key is <= e's
InsertByKey(sorted, e) ==
    IF sorted = <<>> THEN <<e>>
    ELSE IF Head(sorted)[1] <= e[1]
         THEN <<Head(sorted)>> \o InsertByKey(Tail(sorted), e)
         ELSE <<e>> \o sorted

RECURSIVE SortByKey(_)
SortByKey(list) ==
    IF list = <<>> THEN <<>>
    ELSE InsertByKey(SortByKey(SubSeq(list, 1, Len(list) - 1)), list[Len(list)])

nsmallest(n, list) == IF n <= 0 THEN <<>> ELSE Take(SortByKey(list), n)

(***************************************************************************)
(* RoutingTable                                                            *)
(***************************************************************************)
\* add with the capacity test off by one
add_overfill(ps, local, k, peer_id) ==
    IF peer_id = local THEN ps
    ELSE IF Contains(ps, peer_id) THEN ps
    ELSE IF Len(ps) <= k THEN Append(ps, peer_id)
    ELSE ps

\* add without the test for the local identifier
add_self(ps, local, k, peer_id) ==
    IF Contains(ps, peer_id) THEN ps
    ELSE IF Len(ps) < k THEN Append(ps, peer_id)
    ELSE ps

\* add that evicts the oldest peer when the table is full
add_evict(ps, local, k, peer_id) ==
    IF peer_id = local THEN ps
    ELSE IF Contains(ps, peer_id) THEN ps
    ELSE IF Len(ps) < k THEN Append(ps, peer_id)
    ELSE IF ps = <<>> THEN ps
    ELSE Append(Tail(ps), peer_id)

\* RoutingTable.add: the list self.peers after add(peer_id)
add(ps, local, k, peer_id) ==
    IF peer_id = local THEN ps
    ELSE IF Contains(ps, peer_id) THEN ps
    ELSE IF Len(ps) < k THEN Append(ps, peer_id)
    ELSE ps

\* remove that drops the peer and every peer stored after it
remove_truncate(ps, peer_id) ==
    IF ~ Contains(ps, peer_id) THEN ps
    ELSE SubSeq(ps, 1, (CHOOSE i \in 1..Len(ps) : ps[i] = peer_id) - 1)

\* RoutingTable.remove: the list self.peers after remove(peer_id)
remove(ps, peer_id) == list_remove(ps, peer_id)

\* RoutingTable.remove: the exception that leaves remove(peer_id), None when it returns
remove_raises(ps, peer_id) ==
    LET tried == IF Contains(ps, peer_id) THEN None ELSE Some("ValueError")
    \* except ValueError: pass
    IN  IF tried = Some("ValueError") THEN None ELSE tried

\* RoutingTable.closest_peers
closest_peers(ps, k, target_id, count) ==
    LET cnt       == IF count = None \/ count[1] = 0 THEN k ELSE count[1]
        distances == [ i \in 1..Len(ps) |-> << xor_distance(target_id, ps[i]), ps[i] >> ]
        closest   == nsmallest(cnt, distances)
    IN  [ i \in 1..Len(closest) |-> closest[i][2] ]

\* RoutingTable.size
size == Len(peers)

\* RoutingTable.all_peers
all_peers(ps) == [ i \in 1..Len(ps) |-> ps[i] ]

NoRtCall ==
    [ op |-> "none", peer |-> None, count |-> None, before |-> <<>>, result |-> <<>>,
      raised |-> None ]

\* RoutingTable.__init__
RtInit ==
    /\ local_peer_id \in PeerIds
    /\ kbucket_size \in Capacities
    /\ peers = <<>>
    /\ rt_call = NoRtCall
    /\ added = <<>>
    /\ removed = FALSE
    /\ tasks = <<>>

AddCall(peer_id) ==
    /\ peers' = add(peers, local_peer_id, kbucket_size, peer_id)
    /\ rt_call' = [ op |-> "add", peer |-> Some(peer_id), count |-> None,
                    before |-> peers, result |-> <<>>, raised |-> None ]
    /\ added' = IF removed \/ peer_id = local_peer_id \/ Contains(added, peer_id)
                THEN added
                ELSE Append(added, peer_id)
    /\ UNCHANGED <<local_peer_id, kbucket_size, removed, tasks>>

RemoveCall(peer_id) ==
    /\ peers' = remove(peers, peer_id)
    /\ rt_call' = [ op |-> "remove", peer |-> Some(peer_id), count |-> None,
                    before |-> peers, result |-> <<>>,
                    raised |-> remove_raises(peers, peer_id) ]
    /\ removed' = TRUE
    /\ added' = <<>>
    /\ UNCHANGED <<local_peer_id, kbucket_size, tasks>>

ClosestPeersCall(target_id, count) ==
    /\ rt_call' = [ op |-> "closest_peers", peer |-> Some(target_id), count |-> count,
                    before |-> peers,
                    result |-> closest_peers(peers, kbucket_size, target_id, count),
                    raised |-> None ]
    /\ UNCHANGED <<local_peer_id, kbucket_size, peers, added, removed, tasks>>

AllPeersCall ==
    /\ rt_call' = [ op |-> "all_peers", peer |-> None, count |-> None,
                    before |-> peers, result |-> all_peers(peers), raised |-> None ]
    /\ UNCHANGED <<local_peer_id, kbucket_size, peers, added, removed>>
    /\ UNCHANGED tasks

(***************************************************************************)
(* RoutingTable called from several tasks.  The class holds no lock, so    *)
(* the tasks interleave between the statements of its methods: a test or   *)
(* an append of add, a list.remove, a list copy and one step of the        *)
(* iteration over self.peers are each one step.  rt_call, added and        *)
(* removed describe the calls of a single caller and are not used here.    *)
(***************************************************************************)
NumTasks == 2     \* bound: number of tasks
MaxCalls == 2     \* bound: number of calls a task makes

Tasks == 1..NumTasks

TaskIdle ==
    [ pc |-> "idle", calls |-> 0, op |-> "none", peer |-> None, count |-> None,
      idx |-> 0, distances |-> <<>>, seen |-> {}, result |-> <<>> ]

Callable(t) == tasks[t].pc \in { "idle", "done" } /\ tasks[t].calls < MaxCalls

\* the local variables of task t at the start of a call
TaskCalling(t) == [ TaskIdle EXCEPT !.calls = tasks[t].calls + 1 ]

\* the tasks after a step of task t that leaves self.peers as ps: the readers
\* in flight have one more membership to have read from
TasksAfter(t, new, ps) ==
    [ u \in Tasks |->
        IF u = t THEN new
        ELSE IF tasks[u].pc = "line56"
             THEN [ tasks[u] EXCEPT !.seen = @ \cup { ps } ]
             ELSE tasks[u] ]

\* lines 54, 58 and 59 of closest_peers, on the list built by lines 55-57
closest_from(distances, k, count) ==
    LET cnt     == IF count = None \/ count[1] = 0 THEN k ELSE count[1]
        closest == nsmallest(cnt, distances)
    IN  [ i \in 1..Len(closest) |-> closest[i][2] ]

\* add, line 24: the call and the test for the local identifier
TaskAddCall(t, peer_id) ==
    /\ Callable(t)
    /\ tasks' = [ tasks EXCEPT ![t] =
          [ TaskCalling(t) EXCEPT !.op = "add", !.peer = Some(peer_id),
                            !.pc = IF peer_id = local_peer_id THEN "done" ELSE "line26" ] ]
    /\ UNCHANGED <<local_peer_id, kbucket_size, peers, rt_call, added, removed>>

\* add, line 26: if peer_id in self.peers: return
TaskAddLine26(t) ==
    /\ tasks[t].pc = "line26"
    /\ tasks' = [ tasks EXCEPT ![t].pc =
          IF Contains(peers, tasks[t].peer[1]) THEN "done" ELSE "line28" ]
    /\ UNCHANGED <<local_peer_id, kbucket_size, peers, rt_call, added, removed>>

\* add, line 28: if len(self.peers) < self.kbucket_size
TaskAddLine28(t) ==
    /\ tasks[t].pc = "line28"
    /\ tasks' = [ tasks EXCEPT ![t].pc =
          IF Len(peers) < kbucket_size THEN "line29" ELSE "done" ]
    /\ UNCHANGED <<local_peer_id, kbucket_size, peers, rt_call, added, removed>>

\* add, line 29: self.peers.append(peer_id)
TaskAddLine29(t) ==
    /\ tasks[t].pc = "line29"
    /\ peers' = Append(peers, tasks[t].peer[1])
    /\ tasks' = TasksAfter(t, [ tasks[t] EXCEPT !.pc = "done" ], peers')
    /\ UNCHANGED <<local_peer_id, kbucket_size, rt_call, added, removed>>

\* remove, lines 35-38
TaskRemove(t, peer_id) ==
    /\ Callable(t)
    /\ peers' = remove(peers, peer_id)
    /\ tasks' = TasksAfter(t, [ TaskCalling(t) EXCEPT !.op = "remove", !.peer = Some(peer_id),
                                                !.pc = "done" ], peers')
    /\ UNCHANGED <<local_peer_id, kbucket_size, rt_call, added, removed>>

\* closest_peers: the call, up to the start of the iteration over self.peers
TaskClosestPeersCall(t, target_id, count) ==
    /\ Callable(t)
    /\ tasks' = [ tasks EXCEPT ![t] =
          [ TaskCalling(t) EXCEPT !.op = "closest_peers", !.peer = Some(target_id),
                            !.count = count, !.pc = "line56", !.seen = { peers } ] ]
    /\ UNCHANGED <<local_peer_id, kbucket_size, peers, rt_call, added, removed>>

\* closest_peers, lines 55-59: one step of the list iterator, which yields
\* self.peers[idx] while idx < len(self.peers); then the selection
TaskClosestPeersLine56(t) ==
    /\ tasks[t].pc = "line56"
    /\ tasks' = [ tasks EXCEPT ![t] =
          IF tasks[t].idx < Len(peers)
          THEN [ @ EXCEPT !.idx = @ + 1,
                          !.distances = Append(@, << xor_distance(tasks[t].peer[1],
                                                                  peers[tasks[t].idx + 1]),
                                                     peers[tasks[t].idx + 1] >>) ]
          ELSE [ @ EXCEPT !.pc = "done",
                          !.result = closest_from(tasks[t].distances, kbucket_size,
                                                  tasks[t].count) ] ]
    /\ UNCHANGED <<local_peer_id, kbucket_size, peers, rt_call, added, removed>>

\* all_peers, line 67: list(self.peers)
TaskAllPeers(t) ==
    /\ Callable(t)
    /\ tasks' = [ tasks EXCEPT ![t] =
          [ TaskCalling(t) EXCEPT !.op = "all_peers", !.pc = "done", !.seen = { peers },
                            !.result = all_peers(peers) ] ]
    /\ UNCHANGED <<local_peer_id, kbucket_size, peers, rt_call, added, removed>>


(***************************************************************************)
(* Record                                                                  *)
(***************************************************************************)
MaxClock == 2     \* bound: largest value of time.time()

RecordKeys   == { <<"/", "k", "/", "p">>, <<"/", "p", "k", "/", "k">> }
RecordValues == { <<1>>, <<2>> }
Authors      == { None, Some("author1"), Some("author2") }
Signatures   == { None, Some(<<11>>), Some(<<22>>) }
Operands     == { "self", "other" }

\* Record.__init__
Record(k, value, author, signature, now) ==
    [ cls |-> "Record", key |-> k, value |-> value, author |-> author,
      signature |-> signature, timestamp |-> Some(now) ]

\* an object that is not a Record
NotARecord ==
    [ cls |-> "object", key |-> <<>>, value |-> <<>>, author |-> None,
      signature |-> None, timestamp |-> None ]

\* MakePutRecord
MakePutRecord(k, value, author, signature, now) ==
    Record(k, value, author, signature, now)

\* Record.__eq__
Record_eq(self, other) ==
    IF other.cls # "Record" THEN "NotImplemented"
    ELSE IF /\ self.key = other.key
            /\ self.value = other.value
            /\ self.author = other.author
            /\ self.signature = other.signature
         THEN "True"
         ELSE "False"

NoEqCall == [ called |-> FALSE, result |-> "None" ]

RecInit ==
    /\ clock = 0
    /\ records = [ o \in Operands |-> None ]
    /\ eq_call = NoEqCall

\* time passes
Tick ==
    /\ clock < MaxClock
    /\ clock' = clock + 1
    /\ UNCHANGED <<records, eq_call>>

MakePutRecordCall(o, k, value, author, signature) ==
    /\ records' = [ records EXCEPT ![o] = Some(MakePutRecord(k, value, author, signature, clock)) ]
    /\ eq_call' = NoEqCall
    /\ UNCHANGED clock

MakeObject(o) ==
    /\ o = "other"
    /\ records' = [ records EXCEPT ![o] = Some(NotARecord) ]
    /\ eq_call' = NoEqCall
    /\ UNCHANGED clock

\* records["self"] == records["other"]
EqCall ==
    /\ records["self"] # None
    /\ records["other"] # None
    /\ eq_call' = [ called |-> TRUE,
                    result |-> Record_eq(records["self"][1], records["other"][1]) ]
    /\ UNCHANGED <<clock, records>>

(***************************************************************************)
(* Call outcomes                                                           *)
(***************************************************************************)
Return(v) == [ status |-> "return", type |-> "", msg |-> "", value |-> v ]

Raise(type, msg) == [ status |-> "raise", type |-> type, msg |-> msg, value |-> <<>> ]

(***************************************************************************)
(* SplitKey                                                                *)
(***************************************************************************)
MaxKeyLen == 5    \* bound: longest record key

Alphabet == { "/", "p", "k" }

Keys == UNION { [ 1..n -> Alphabet ] : n \in 0..MaxKeyLen }

\* str.find(sep): the index of the first occurrence from position i on, 0 when there is none
RECURSIVE str_find(_, _, _)
str_find(s, sep, i) ==
    IF i > Len(s) THEN 0
    ELSE IF s[i] = sep THEN i
    ELSE str_find(s, sep, i + 1)

\* str.split(sep, 1)
str_split1(s, sep) ==
    LET i == str_find(s, sep, 1)
    IN  IF i = 0 THEN << s >>
        ELSE << SubSeq(s, 1, i - 1), SubSeq(s, i + 1, Len(s)) >>

\* str.rsplit(sep, 1)
RECURSIVE str_rfind(_, _, _)
str_rfind(s, sep, i) ==
    IF i < 1 THEN 0
    ELSE IF s[i] = sep THEN i
    ELSE str_rfind(s, sep, i - 1)

\* SplitKey splitting on the last slash instead of the first
SplitKey_rsplit(k) ==
    IF k = <<>> THEN Raise("ErrInvalidRecordType", "empty key")
    ELSE
      LET stripped == IF Head(k) = "/" THEN Tail(k) ELSE k
          i        == str_rfind(stripped, "/", Len(stripped))
          parts    == IF i = 0 THEN << stripped >>
                      ELSE << SubSeq(stripped, 1, i - 1), SubSeq(stripped, i + 1, Len(stripped)) >>
      IN  IF Len(parts) < 2 THEN Raise("ErrInvalidRecordType", "invalid key format")
          ELSE IF parts[1] = <<>> THEN Raise("ErrInvalidRecordType", "empty namespace")
          ELSE IF parts[2] = <<>> THEN Raise("ErrInvalidRecordType", "empty path")
          ELSE Return(<< parts[1], parts[2] >>)

\* SplitKey that does not strip the leading slash
SplitKey_nostrip(k) ==
    IF k = <<>> THEN Raise("ErrInvalidRecordType", "empty key")
    ELSE
      LET parts == str_split1(k, "/")
      IN  IF Len(parts) < 2 THEN Raise("ErrInvalidRecordType", "invalid key format")
          ELSE IF parts[1] = <<>> THEN Raise("ErrInvalidRecordType", "empty namespace")
          ELSE IF parts[2] = <<>> THEN Raise("ErrInvalidRecordType", "empty path")
          ELSE Return(<< parts[1], parts[2] >>)

SplitKey(k) ==
    IF k = <<>> THEN Raise("ErrInvalidRecordType", "empty key")
    ELSE
      LET stripped == IF Head(k) = "/" THEN Tail(k) ELSE k
          parts    == str_split1(stripped, "/")
      IN  IF Len(parts) < 2 THEN Raise("ErrInvalidRecordType", "invalid key format")
          ELSE IF parts[1] = <<>> THEN Raise("ErrInvalidRecordType", "empty namespace")
          ELSE IF parts[2] = <<>> THEN Raise("ErrInvalidRecordType", "empty path")
          ELSE Return(<< parts[1], parts[2] >>)

NoOutcome == [ status |-> "none", type |-> "", msg |-> "", value |-> <<>> ]

SkInit ==
    /\ sk_key \in Keys
    /\ sk_result = NoOutcome
    /\ sk_prev = None

SplitKeyCall ==
    /\ sk_result = NoOutcome
    /\ sk_result' = SplitKey(sk_key)
    /\ UNCHANGED <<sk_key, sk_prev>>

\* a second call, with the key of the first without its leading slash
SplitKeyWithoutSlashCall ==
    /\ sk_result # NoOutcome
    /\ sk_prev = None
    /\ sk_key # <<>>
    /\ Head(sk_key) = "/"
    /\ sk_prev' = Some([ key |-> sk_key, result |-> sk_result ])
    /\ sk_key' = Tail(sk_key)
    /\ sk_result' = SplitKey(Tail(sk_key))


(***************************************************************************)
(* Validators                                                              *)
(***************************************************************************)
MaxValKeyLen == 4   \* bound: longest key passed to a validator
MaxValues    == 2   \* bound: longest candidate list passed to select

ValKeys == UNION { [ 1..n -> Alphabet ] : n \in 0..MaxValKeyLen }

PkNamespace == << "p", "k" >>

\* the namespaces add_validator is called with
Namespaces == { PkNamespace, << "k" >> }

ValidatorClasses == { "PublicKeyValidator", "CustomValidator" }

\* record values: a byte that is no protobuf message, a serialized public key
Values == { <<7>>, <<8, 1, 18, 1, 7>> }

ValueLists == UNION { [ 1..n -> Values ] : n \in 0..MaxValues }

\* base58.b58decode followed by multihash.decode (libraries): whether the
\* path decodes to a multihash.  "/" is not a base58 digit; of the other
\* paths, those starting with "k" stand for the encodings of multihashes.
b58_multihash_ok(path) ==
    /\ ~ Contains(path, "/")
    /\ path # <<>>
    /\ Head(path) = "k"

\* PublicKey.deserialize_from_protobuf (library): the parsed message of a
\* value made of field 1 (a varint) and field 2 (length-delimited), <<>> when
\* the parse fails
deserialize_from_protobuf(value) ==
    IF /\ Len(value) >= 4
       /\ value[1] = 8
       /\ value[3] = 18
       /\ value[4] = Len(value) - 4
    THEN Some([ key_type |-> value[2], data |-> SubSeq(value, 5, Len(value)) ])
    ELSE None

\* validate that parses the value before it decodes the path
PublicKeyValidator_validate_value_first(k, value) ==
    LET split == SplitKey(k)
    IN  IF split.status = "raise" THEN split
        ELSE
          LET namespace == split.value[1]
              path      == split.value[2]
              parsed    == deserialize_from_protobuf(value)
          IN  IF namespace # PkNamespace
                THEN Raise("ErrInvalidRecordType", "invalid namespace for public key validator")
              ELSE IF parsed = None
                THEN Raise("ErrInvalidPublicKey", "failed to parse public key protobuf")
              ELSE IF ~ b58_multihash_ok(path)
                THEN Raise("ErrInvalidMultihash", "invalid peer ID in key")
              ELSE Return(None)

\* PublicKeyValidator.validate
PublicKeyValidator_validate(k, value) ==
    LET split == SplitKey(k)
    IN  IF split.status = "raise" THEN split
        ELSE
          LET namespace == split.value[1]
              path      == split.value[2]
              parsed    == deserialize_from_protobuf(value)
          IN  IF namespace # PkNamespace
                THEN Raise("ErrInvalidRecordType", "invalid namespace for public key validator")
              ELSE IF ~ b58_multihash_ok(path)
                THEN Raise("ErrInvalidMultihash", "invalid peer ID in key")
              ELSE IF parsed = None
                THEN Raise("ErrInvalidPublicKey", "failed to parse public key protobuf")
              ELSE IF ~ ({ "key_type", "data" } \subseteq DOMAIN parsed[1])
                THEN Raise("ErrInvalidPublicKey", "invalid public key protobuf structure")
              ELSE Return(None)

Invocation(cls, method) == [ cls |-> cls, method |-> method ]

\* the index (0-based) of the first candidate from position i on that validates, -1 when none does
RECURSIVE first_valid(_, _, _)
first_valid(k, values, i) ==
    IF i > Len(values) THEN -1
    ELSE IF PublicKeyValidator_validate(k, values[i]).status = "return" THEN i - 1
    ELSE first_valid(k, values, i + 1)

\* select that falls through to the first candidate that validates
PublicKeyValidator_select_fallthrough(k, values) ==
    IF values = <<>>
    THEN [ outcome |-> Raise("ErrInvalidRecord", "no values to select from"),
           invoked |-> <<>> ]
    ELSE
      LET i == first_valid(k, values, 1)
      IN  [ outcome |-> IF i < 0 THEN PublicKeyValidator_validate(k, values[1])
                        ELSE Return(Some(i)),
            invoked |-> << Invocation("PublicKeyValidator", "validate") >> ]

\* PublicKeyValidator.select: its outcome and the validator methods it ran
PublicKeyValidator_select(k, values) ==
    IF values = <<>>
    THEN [ outcome |-> Raise("ErrInvalidRecord", "no values to select from"),
           invoked |-> <<>> ]
    ELSE
      LET v == PublicKeyValidator_validate(k, values[1])
      IN  [ outcome |-> IF v.status = "raise" THEN v ELSE Return(Some(0)),
            invoked |-> << Invocation("PublicKeyValidator", "validate") >> ]

\* CustomValidator.validate (examples/record_demo.py)
CustomValidator_validate(k, value) ==
    IF value = <<>> THEN Raise("ValueError", "value cannot be empty")
    ELSE IF Len(value) < 5 THEN Raise("ValueError", "value must be at least 5 bytes")
    ELSE Return(None)

\* the loop of CustomValidator.select from position i on (1-based position i
\* is Python index i - 1)
RECURSIVE select_longest(_, _, _, _)
select_longest(values, i, max_length, selected_index) ==
    IF i > Len(values) THEN selected_index
    ELSE IF Len(values[i]) > max_length
         THEN select_longest(values, i + 1, Len(values[i]), i - 1)
         ELSE select_longest(values, i + 1, max_length, selected_index)

\* CustomValidator.select (examples/record_demo.py)
CustomValidator_select(k, values) ==
    IF values = <<>> THEN Raise("ValueError", "no values to select from")
    ELSE Return(Some(select_longest(values, 1, 0, 0)))

\* validator.validate(key, value) for a validator of class cls
Validator_validate(cls, k, value) ==
    IF cls = "PublicKeyValidator" THEN PublicKeyValidator_validate(k, value)
    ELSE CustomValidator_validate(k, value)

\* validator.select(key, values) for a validator of class cls
Validator_select(cls, k, values) ==
    IF cls = "PublicKeyValidator" THEN PublicKeyValidator_select(k, values)
    ELSE [ outcome |-> CustomValidator_select(k, values), invoked |-> <<>> ]

\* dict.get
dict_get(d, k) == IF k \in DOMAIN d THEN Some(d[k]) ELSE None

\* add_validator that keeps the validator a namespace already has (dict.setdefault)
add_validator_setdefault(vs, namespace, cls) ==
    [ n \in (DOMAIN vs) \cup { namespace } |-> IF n \in DOMAIN vs THEN vs[n] ELSE cls ]

\* NamespacedValidator.add_validator: self._validators after the call
add_validator(vs, namespace, cls) ==
    [ n \in (DOMAIN vs) \cup { namespace } |-> IF n = namespace THEN cls ELSE vs[n] ]

\* NamespacedValidator.validator_by_key
validator_by_key(vs, k) ==
    LET split == SplitKey(k)
    IN  IF split.status = "raise" /\ split.type = "ErrInvalidRecordType" THEN None
        ELSE dict_get(vs, split.value[1])

\* validate raising its no-validator error inside the try block, as select does
NamespacedValidator_validate_caught(vs, k, value) ==
    LET split == SplitKey(k)
        validator == IF split.status = "raise" THEN None ELSE dict_get(vs, split.value[1])
    IN  IF validator = None
        THEN [ outcome |-> Raise("ErrInvalidRecordType", "invalid key format"),
               invoked |-> <<>> ]
        ELSE [ outcome |-> Validator_validate(validator[1], k, value),
               invoked |-> << Invocation(validator[1], "validate") >> ]

\* NamespacedValidator.validate: its outcome and the validator methods it ran
NamespacedValidator_validate(vs, k, value) ==
    LET split == SplitKey(k)
    IN  IF split.status = "raise" /\ split.type = "ErrInvalidRecordType"
        THEN [ outcome |-> Raise("ErrInvalidRecordType", "invalid key format"),
               invoked |-> <<>> ]
        ELSE
          LET validator == dict_get(vs, split.value[1])
          IN  IF validator = None
              THEN [ outcome |-> Raise("ErrInvalidRecordType", "no validator for namespace"),
                     invoked |-> <<>> ]
              ELSE [ outcome |-> Validator_validate(validator[1], k, value),
                     invoked |-> << Invocation(validator[1], "validate") >> ]

DeclaredErrors ==
    { "ErrInvalidRecordType", "ErrInvalidRecord", "ErrInvalidPublicKey", "ErrInvalidMultihash" }

\* select that catches the undeclared failures of the validator it delegates to
NamespacedValidator_select_wrapped(vs, k, values) ==
    LET validator == validator_by_key(vs, k)
    IN  IF validator = None
        THEN [ outcome |-> Raise("ErrInvalidRecordType", "invalid key format"),
               invoked |-> <<>> ]
        ELSE
          LET delegated == Validator_select(validator[1], k, values)
          IN  [ outcome |-> IF /\ delegated.outcome.status = "raise"
                               /\ delegated.outcome.type \notin DeclaredErrors
                            THEN Raise("SelectionFailed", "selection failed")
                            ELSE delegated.outcome,
                invoked |-> << Invocation(validator[1], "select") >> \o delegated.invoked ]

\* NamespacedValidator.select: its outcome and the validator methods it ran
NamespacedValidator_select(vs, k, values) ==
    LET validator == validator_by_key(vs, k)
    IN  IF validator = None
        THEN
          \* the body of the try block: SplitKey, then the raise
          LET split == SplitKey(k)
              tried == IF split.status = "raise" THEN split
                       ELSE Raise("ErrInvalidRecordType", "no validator for namespace")
          \* the except clause catches every ErrInvalidRecordType of the body
          IN  [ outcome |-> IF tried.type = "ErrInvalidRecordType"
                            THEN Raise("ErrInvalidRecordType", "invalid key format")
                            ELSE tried,
                invoked |-> <<>> ]
        ELSE
          LET delegated == Validator_select(validator[1], k, values)
          IN  [ outcome |-> delegated.outcome,
                invoked |-> << Invocation(validator[1], "select") >> \o delegated.invoked ]

NoValCall == [ op |-> "none", args |-> <<>>, outcome |-> NoOutcome ]

\* NamespacedValidator.__init__, and the key of the calls to come
ValInit ==
    /\ key \in ValKeys
    /\ validators = [ n \in { PkNamespace } |-> "PublicKeyValidator" ]
    /\ v_call = NoValCall
    /\ invoked = <<>>
    /\ last_reg = [ n \in Namespaces |-> None ]

AddValidatorCall(namespace, cls) ==
    /\ validators' = add_validator(validators, namespace, cls)
    /\ v_call' = NoValCall
    /\ invoked' = <<>>
    /\ last_reg' = [ last_reg EXCEPT ![namespace] = Some(cls) ]
    /\ UNCHANGED key

ValidatorByKeyCall ==
    /\ v_call' = [ op |-> "NamespacedValidator.validator_by_key", args |-> <<>>,
                   outcome |-> Return(validator_by_key(validators, key)) ]
    /\ invoked' = <<>>
    /\ UNCHANGED <<key, validators, last_reg>>

NsValidateCall(value) ==
    LET r == NamespacedValidator_validate(validators, key, value)
    IN  /\ v_call' = [ op |-> "NamespacedValidator.validate", args |-> << value >>,
                       outcome |-> r.outcome ]
        /\ invoked' = r.invoked
        /\ UNCHANGED <<key, validators, last_reg>>

NsSelectCall(values) ==
    LET r == NamespacedValidator_select(validators, key, values)
    IN  /\ v_call' = [ op |-> "NamespacedValidator.select", args |-> values,
                       outcome |-> r.outcome ]
        /\ invoked' = r.invoked
        /\ UNCHANGED <<key, validators, last_reg>>

PkValidateCall(value) ==
    /\ v_call' = [ op |-> "PublicKeyValidator.validate", args |-> << value >>,
                   outcome |-> PublicKeyValidator_validate(key, value) ]
    /\ invoked' = <<>>
    /\ UNCHANGED <<key, validators, last_reg>>

PkSelectCall(values) ==
    LET r == PublicKeyValidator_select(key, values)
    IN  /\ v_call' = [ op |-> "PublicKeyValidator.select", args |-> values,
                       outcome |-> r.outcome ]
        /\ invoked' = r.invoked
        /\ UNCHANGED <<key, validators, last_reg>>

(***************************************************************************)
(* Specifications: one per component; the variables of the other           *)
(* components keep their initial values.                                   *)
(***************************************************************************)
RtIdle ==
    /\ local_peer_id = PeerIdBytes(1)
    /\ kbucket_size = 0
    /\ peers = <<>>
    /\ rt_call = NoRtCall
    /\ added = <<>>
    /\ removed = FALSE
    /\ tasks = <<>>

RecIdle == RecInit

ValIdle ==
    /\ key = <<>>
    /\ validators = [ n \in { PkNamespace } |-> "PublicKeyValidator" ]
    /\ v_call = NoValCall
    /\ invoked = <<>>
    /\ last_reg = [ n \in Namespaces |-> None ]

SkIdle ==
    /\ sk_key = <<>>
    /\ sk_result = NoOutcome
    /\ sk_prev = None

\* the routing table
Init == RtInit /\ RecIdle /\ ValIdle /\ SkIdle

Next ==
    \/ \E p \in PeerIds : AddCall(p) /\ UNCHANGED <<rec_vars, val_vars, sk_vars>>
    \/ \E p \in PeerIds : RemoveCall(p) /\ UNCHANGED <<rec_vars, val_vars, sk_vars>>
    \/ \E t \in PeerIds, c \in Counts :
          ClosestPeersCall(t, c) /\ UNCHANGED <<rec_vars, val_vars, sk_vars>>
    \/ AllPeersCall /\ UNCHANGED <<rec_vars, val_vars, sk_vars>>

Spec == Init /\ [][Next]_vars

\* the routing table called from several tasks
InitTasks ==
    /\ local_peer_id = PeerIdBytes(1)
    /\ kbucket_size \in Capacities
    /\ peers = <<>>
    /\ rt_call = NoRtCall
    /\ added = <<>>
    /\ removed = FALSE
    /\ tasks = [ t \in Tasks |-> TaskIdle ]
    /\ RecIdle /\ ValIdle /\ SkIdle

NextTasks ==
    \/ \E t \in Tasks, p \in PeerIds :
          TaskAddCall(t, p) /\ UNCHANGED <<rec_vars, val_vars, sk_vars>>
    \/ \E t \in Tasks : TaskAddLine26(t) /\ UNCHANGED <<rec_vars, val_vars, sk_vars>>
    \/ \E t \in Tasks : TaskAddLine28(t) /\ UNCHANGED <<rec_vars, val_vars, sk_vars>>
    \/ \E t \in Tasks : TaskAddLine29(t) /\ UNCHANGED <<rec_vars, val_vars, sk_vars>>
    \/ \E t \in Tasks, p \in PeerIds :
          TaskRemove(t, p) /\ UNCHANGED <<rec_vars, val_vars, sk_vars>>
    \/ \E t \in Tasks, target \in PeerIds, c \in Counts :
          TaskClosestPeersCall(t, target, c) /\ UNCHANGED <<rec_vars, val_vars, sk_vars>>
    \/ \E t \in Tasks : TaskClosestPeersLine56(t) /\ UNCHANGED <<rec_vars, val_vars, sk_vars>>
    \/ \E t \in Tasks : TaskAllPeers(t) /\ UNCHANGED <<rec_vars, val_vars, sk_vars>>

SpecTasks == InitTasks /\ [][NextTasks]_vars

\* records
InitRecord == RecInit /\ RtIdle /\ ValIdle /\ SkIdle

NextRecord ==
    \/ Tick /\ UNCHANGED <<rt_vars, val_vars, sk_vars>>
    \/ \E o \in Operands, k \in RecordKeys, v \in RecordValues,
          a \in Authors, s \in Signatures :
          MakePutRecordCall(o, k, v, a, s) /\ UNCHANGED <<rt_vars, val_vars, sk_vars>>
    \/ \E o \in Operands : MakeObject(o) /\ UNCHANGED <<rt_vars, val_vars, sk_vars>>
    \/ EqCall /\ UNCHANGED <<rt_vars, val_vars, sk_vars>>

SpecRecord == InitRecord /\ [][NextRecord]_vars

\* validators
InitValidator == ValInit /\ RtIdle /\ RecIdle /\ SkIdle

NextValidator ==
    \/ \E n \in Namespaces, c \in ValidatorClasses :
          AddValidatorCall(n, c) /\ UNCHANGED <<rt_vars, rec_vars, sk_vars>>
    \/ \E v \in Values : NsValidateCall(v) /\ UNCHANGED <<rt_vars, rec_vars, sk_vars>>
    \/ \E vl \in ValueLists : NsSelectCall(vl) /\ UNCHANGED <<rt_vars, rec_vars, sk_vars>>
    \/ \E v \in Values : PkValidateCall(v) /\ UNCHANGED <<rt_vars, rec_vars, sk_vars>>
    \/ \E vl \in ValueLists : PkSelectCall(vl) /\ UNCHANGED <<rt_vars, rec_vars, sk_vars>>
    \/ ValidatorByKeyCall /\ UNCHANGED <<rt_vars, rec_vars, sk_vars>>

SpecValidator == InitValidator /\ [][NextValidator]_vars

\* SplitKey
InitSplitKey == SkInit /\ RtIdle /\ RecIdle /\ ValIdle

NextSplitKey ==
    \/ SplitKeyCall /\ UNCHANGED <<rt_vars, rec_vars, val_vars>>
    \/ SplitKeyWithoutSlashCall /\ UNCHANGED <<rt_vars, rec_vars, val_vars>>

SpecSplitKey == InitSplitKey /\ [][NextSplitKey]_vars


(***************************************************************************)
(* Properties of the routing table (specification Spec)                    *)
(***************************************************************************)
NoDuplicates(list) == \A i, j \in 1..Len(list) : i # j => list[i] # list[j]

\* C1: after any sequence of add and remove calls on a table of capacity K,
\* the number of stored peers is at most K.
C1_SizeAtMostK == size <= kbucket_size

\* a full table has just rejected a peer it does not store
C1_Witness ==
    /\ kbucket_size > 0
    /\ size = kbucket_size
    /\ rt_call.op = "add"
    /\ rt_call.peer[1] # local_peer_id
    /\ ~ Contains(rt_call.before, rt_call.peer[1])
    /\ Len(rt_call.before) = kbucket_size

\* C2: add of the local identifier or of a stored peer leaves the membership
\* as it was; the membership never holds the local identifier and never
\* holds an identifier twice.
C2_AddNoOp ==
    /\ ~ Contains(peers, local_peer_id)
    /\ NoDuplicates(peers)
    /\ ( /\ rt_call.op = "add"
         /\ \/ rt_call.peer[1] = local_peer_id
            \/ Contains(rt_call.before, rt_call.peer[1]) )
       => peers = rt_call.before

\* a stored peer was added again while the table had room
C2_Witness ==
    /\ rt_call.op = "add"
    /\ Contains(rt_call.before, rt_call.peer[1])
    /\ Len(rt_call.before) < kbucket_size
    /\ peers = rt_call.before

\* C3: add of a peer that is not stored to a table holding K peers leaves
\* the membership exactly as it was; while no remove was made, the table
\* holds the first K distinct non-local peers that were added, in order.
C3_RejectWhenFull ==
    /\ ( /\ rt_call.op = "add"
         /\ Len(rt_call.before) >= kbucket_size
         /\ ~ Contains(rt_call.before, rt_call.peer[1]) )
       => peers = rt_call.before
    /\ ~ removed => peers = Take(added, kbucket_size)

\* more than K distinct non-local peers were added to an empty table
C3_Witness ==
    /\ ~ removed
    /\ kbucket_size > 0
    /\ rt_call.op = "add"
    /\ Len(added) > kbucket_size
    /\ size = kbucket_size

\* C4: closest_peers(target, k) with a count k >= 0 returns at most k
\* entries, each a member of all_peers(), sorted strictly ascending by XOR
\* distance to the target.
C4_ClosestPeersBounded ==
    ( rt_call.op = "closest_peers" /\ rt_call.count # None ) =>
        LET result == rt_call.result
            target == rt_call.peer[1]
        IN  /\ Len(result) <= rt_call.count[1]
            /\ \A i \in 1..Len(result) : Contains(all_peers(peers), result[i])
            /\ \A i, j \in 1..Len(result) :
                  i < j => xor_distance(target, result[i]) < xor_distance(target, result[j])

\* C13: remove never fails; it removes a stored peer and keeps every other
\* stored peer, leaves the table unchanged when the peer is absent, and a
\* second remove of the same peer changes nothing.
C13_RemoveIdempotent ==
    rt_call.op = "remove" =>
        LET p == rt_call.peer[1]
        IN  /\ rt_call.raised = None
            /\ ~ Contains(peers, p)
            /\ \A q \in PeerIds : q # p => (Contains(peers, q) <=> Contains(rt_call.before, q))
            /\ ~ Contains(rt_call.before, p) => peers = rt_call.before
            /\ remove(peers, p) = peers
            /\ remove_raises(peers, p) = None

\* the first of two stored peers was removed
C13_Witness ==
    /\ rt_call.op = "remove"
    /\ Len(rt_call.before) = 2
    /\ rt_call.before[1] = rt_call.peer[1]
    /\ peers = << rt_call.before[2] >>

\* the natural (lexicographic) ordering of byte strings
RECURSIVE BytesLess(_, _)
BytesLess(a, b) ==
    IF b = <<>> THEN FALSE
    ELSE IF a = <<>> THEN TRUE
    ELSE IF Head(a) # Head(b) THEN Head(a) < Head(b)
    ELSE BytesLess(Tail(a), Tail(b))

\* a comes before b in the order by XOR distance to target, ties by byte ordering
Closer(target, a, b) ==
    \/ xor_distance(target, a) < xor_distance(target, b)
    \/ /\ xor_distance(target, a) = xor_distance(target, b)
       /\ BytesLess(a, b)

\* C15: closest_peers(target, count) is the first count stored peers in the
\* order by XOR distance to the target, ties by byte ordering: it has
\* min(count, size) entries, in that order, and no omitted peer comes before a
\* returned one; an unspecified count stands for the capacity K.
C15_ClosestPeersExact ==
    rt_call.op = "closest_peers" =>
        LET result == rt_call.result
            target == rt_call.peer[1]
            n      == IF rt_call.count = None THEN kbucket_size ELSE rt_call.count[1]
        IN  /\ Len(result) = IF n < size THEN n ELSE size
            /\ \A i \in 1..Len(result) : Contains(peers, result[i])
            /\ \A i, j \in 1..Len(result) : i < j => Closer(target, result[i], result[j])
            /\ \A q \in Elems(peers) \ Elems(result) :
                  \A i \in 1..Len(result) : Closer(target, result[i], q)

C5_EqualityIsKeyValueAuthor ==
    ( /\ eq_call.called
      /\ records["self"][1].cls = "Record"
      /\ records["other"][1].cls = "Record" ) =>
        LET a == records["self"][1]
            b == records["other"][1]
        IN  (eq_call.result = "True") <=>
                (a.key = b.key /\ a.value = b.value /\ a.author = b.author)

(***************************************************************************)
(* Properties of the validators (specification SpecValidator)              *)
(***************************************************************************)
\* the key without its leading slash
Stripped(k) == IF k # <<>> /\ k[1] = "/" THEN Tail(k) ELSE k

SlashPositions(s) == { i \in 1..Len(s) : s[i] = "/" }

FirstSlash(s) == CHOOSE i \in SlashPositions(s) : \A j \in SlashPositions(s) : i <= j

\* the key has a non-empty namespace, a slash and a non-empty path
WellFormed(k) ==
    /\ k # <<>>
    /\ SlashPositions(Stripped(k)) # {}
    /\ FirstSlash(Stripped(k)) > 1
    /\ FirstSlash(Stripped(k)) < Len(Stripped(k))

NamespaceOf(k) == SubSeq(Stripped(k), 1, FirstSlash(Stripped(k)) - 1)

InvalidKeyFormat == Raise("ErrInvalidRecordType", "invalid key format")

NoValidatorForNamespace == Raise("ErrInvalidRecordType", "no validator for namespace")

\* C6: PublicKeyValidator.select fails with the empty-candidate-set error on
\* an empty list; otherwise it returns index 0 exactly when the first
\* candidate validates and fails with the first candidate's validation error
\* when it does not, whatever the later candidates are.
C6_PkSelectFirstOnly ==
    v_call.op = "PublicKeyValidator.select" =>
        IF v_call.args = <<>>
        THEN v_call.outcome = Raise("ErrInvalidRecord", "no values to select from")
        ELSE LET first == PublicKeyValidator_validate(key, v_call.args[1])
             IN  /\ (v_call.outcome = Return(Some(0))) <=> (first.status = "return")
                 /\ first.status = "raise" => v_call.outcome = first
                 /\ v_call.outcome.status = "return" => v_call.outcome.value = Some(0)

\* the first candidate is invalid, the second is valid, and select failed
C6_Witness ==
    /\ v_call.op = "PublicKeyValidator.select"
    /\ Len(v_call.args) = 2
    /\ PublicKeyValidator_validate(key, v_call.args[1]).status = "raise"
    /\ PublicKeyValidator_validate(key, v_call.args[2]).status = "return"
    /\ v_call.outcome.status = "raise"
    /\ v_call.outcome.type = "ErrInvalidPublicKey"

\* C7: NamespacedValidator.validate fails with the invalid-key-format error
\* when the key cannot be split and with the no-validator-for-namespace error
\* when the namespace of a well-formed key is not registered; in both cases
\* no validator's validate is invoked.
C7_NsValidateErrors ==
    v_call.op = "NamespacedValidator.validate" =>
        /\ ~ WellFormed(key) =>
              /\ v_call.outcome = InvalidKeyFormat
              /\ \A i \in 1..Len(invoked) : invoked[i].method # "validate"
        /\ ( WellFormed(key) /\ NamespaceOf(key) \notin DOMAIN validators ) =>
              /\ v_call.outcome = NoValidatorForNamespace
              /\ v_call.outcome # InvalidKeyFormat
              /\ \A i \in 1..Len(invoked) : invoked[i].method # "validate"

\* validate was called with a well-formed key of an unregistered namespace,
\* while a custom validator is registered for another namespace
C7_Witness ==
    /\ v_call.op = "NamespacedValidator.validate"
    /\ WellFormed(key)
    /\ NamespaceOf(key) \notin DOMAIN validators
    /\ << "k" >> \in DOMAIN validators
    /\ v_call.outcome.msg = "no validator for namespace"

\* C8: NamespacedValidator.select fails with the invalid-key-format error for
\* a malformed key and with the no-validator-for-namespace error for a
\* well-formed key whose namespace is not registered.
C8_NsSelectErrors ==
    v_call.op = "NamespacedValidator.select" =>
        /\ ~ WellFormed(key) => v_call.outcome = InvalidKeyFormat
        /\ ( WellFormed(key) /\ NamespaceOf(key) \notin DOMAIN validators ) =>
              v_call.outcome = NoValidatorForNamespace

\* select was delegated to the validator registered for the key's namespace,
\* whose select raised a failure that is not one of the record module's errors
UndeclaredSelectFailure ==
    /\ v_call.op = "NamespacedValidator.select"
    /\ WellFormed(key)
    /\ NamespaceOf(key) \in DOMAIN validators
    /\ LET own == Validator_select(validators[NamespaceOf(key)], key, v_call.args).outcome
       IN  own.status = "raise" /\ own.type \notin DeclaredErrors

\* C9 (as stated): an undeclared failure of the registered validator's select
\* is caught by NamespacedValidator.select and surfaced as a selection-failed
\* error.
C9_SurfacedAsSelectionFailed ==
    UndeclaredSelectFailure =>
        /\ v_call.outcome.status = "raise"
        /\ v_call.outcome.type = "SelectionFailed"

\* C9 (amended): an undeclared failure of the registered validator's select
\* is not caught by NamespacedValidator.select: the validator's own exception
\* reaches the caller unchanged.
C9_FailureEscapes ==
    UndeclaredSelectFailure =>
        v_call.outcome =
            Validator_select(validators[NamespaceOf(key)], key, v_call.args).outcome

\* the custom validator's ValueError reached the caller of NamespacedValidator.select
C9_Witness ==
    /\ UndeclaredSelectFailure
    /\ validators[NamespaceOf(key)] = "CustomValidator"
    /\ v_call.outcome = Raise("ValueError", "no values to select from")

\* the validator the registry is to hold for namespace n: the one of the most
\* recent add_validator call for n, else the built-in one for "pk", else none
ExpectedValidator(n) ==
    IF n \in Namespaces /\ last_reg[n] # None THEN last_reg[n]
    ELSE IF n = PkNamespace THEN Some("PublicKeyValidator")
    ELSE None

\* C12: after any sequence of add_validator calls the registry holds, for
\* every namespace, the validator most recently registered for it (the
\* built-in PublicKeyValidator for "pk" when never overridden) and nothing
\* for a namespace never registered, so a registration changes no other
\* namespace's entry; validator_by_key returns that validator for a
\* well-formed key and returns absent, without raising, for a malformed key
\* or an unregistered namespace.
C12_MostRecentValidator ==
    /\ \A n \in Namespaces \cup DOMAIN validators : dict_get(validators, n) = ExpectedValidator(n)
    /\ v_call.op = "NamespacedValidator.validator_by_key" =>
          /\ v_call.outcome.status = "return"
          /\ v_call.outcome.value =
                IF WellFormed(key) THEN ExpectedValidator(NamespaceOf(key)) ELSE None

\* validator_by_key returned the custom validator that replaced the built-in
\* one for "pk", while another namespace holds the validator registered for it
C12_Witness ==
    /\ v_call.op = "NamespacedValidator.validator_by_key"
    /\ WellFormed(key)
    /\ NamespaceOf(key) = PkNamespace
    /\ v_call.outcome = Return(Some("CustomValidator"))
    /\ dict_get(validators, << "k" >>) = Some("PublicKeyValidator")

PathOf(k) == SubSeq(Stripped(k), FirstSlash(Stripped(k)) + 1, Len(Stripped(k)))

C10_SplitKeyShape ==
    sk_result # NoOutcome =>
        LET stripped == Stripped(sk_key)
            slashes  == SlashPositions(stripped)
            fails    == \/ sk_key = <<>>
                        \/ slashes = {}
                        \/ 1 \in slashes
                        \/ FirstSlash(stripped) = Len(stripped)
        IN  IF fails
            THEN sk_result.status = "raise" /\ sk_result.type = "ErrInvalidRecordType"
            ELSE /\ sk_result.status = "return"
                 /\ Len(sk_result.value) = 2
                 /\ sk_result.value[1] \o << "/" >> \o sk_result.value[2] = stripped
                 /\ ~ Contains(sk_result.value[1], "/")
                 /\ sk_result.value[1] # <<>>
                 /\ sk_result.value[2] # <<>>

\* SplitKey returned a path that itself contains a slash
C10_Witness ==
    /\ sk_result.status = "return"
    /\ sk_key[1] = "/"
    /\ Contains(sk_result.value[2], "/")


\* C11: for every key "/ns/path..." with non-empty ns and path, SplitKey of
\* the key and SplitKey of the key without its leading slash return the same
\* (namespace, path) pair.
C11_LeadingSlashOptional ==
    ( /\ sk_prev # None
      /\ Head(sk_prev[1].key) = "/"
      /\ WellFormed(sk_prev[1].key)
      /\ sk_key = Tail(sk_prev[1].key) ) =>
        /\ sk_prev[1].result.status = "return"
        /\ sk_result.status = "return"
        /\ sk_result.value = sk_prev[1].result.value

\* both calls were made on a key "/ns/path" and returned a pair
C11_Witness ==
    /\ sk_prev # None
    /\ WellFormed(sk_prev[1].key)
    /\ sk_key = Tail(sk_prev[1].key)
    /\ sk_result.status = "return"
    /\ sk_result.value = sk_prev[1].result.value
    /\ sk_result.value[1] = PkNamespace

====
